---- MODULE Spec2Model ----
(***************************************************************************)
(* State-machine model of the tutoring invoice driver (src/invoice.py):    *)
(* the spreadsheet (session range, client range, cutoff range, invoice     *)
(* counter cell), the driver loop of __main__ and the steps of             *)
(* create_and_send_invoice, one action per step.                           *)
(*                                                                         *)
(* Representation.  Text cells that the code manipulates character by      *)
(* character are sequences: the counter cell is a sequence of decimal      *)
(* digits, a payer name is a sequence of one-character strings.  Serial    *)
(* dates are integers (whole days); a datetime is its proleptic day        *)
(* ordinal.  Hours and fees are integers (quarter hours and cents).  A     *)
(* numeric cell is a record [isnum, v]; float() fails on a cell with       *)
(* isnum = FALSE.                                                          *)
(***************************************************************************)
EXTENDS Integers, Sequences, FiniteSets

VARIABLES
    sessions,        \* sheet: SESSION_RANGE rows [name, date, hours, fee]
    clientRange,     \* sheet: CLIENT_RANGE rows [name, tab, payer]
    cutoff,          \* sheet: CUTOFF_RANGE, <<start serial, end serial>>
    counterCell,     \* sheet: INVOICE_NUMBER_RANGE cell, a digit string
    argv,            \* sys.argv[1:]
    names,           \* __main__: the list the for loop iterates
    idx,             \* __main__: number of names whose pipeline was started
    pc,              \* position of the process
    name,            \* create_and_send_invoice: parameter
    invoice_number,  \* create_and_send_invoice: local
    all_clients,     \* create_and_send_invoice: local
    current_sessions,\* create_and_send_invoice: local
    client_data,     \* create_and_send_invoice: local
    doc,             \* fields rendered into latex_content
    files,           \* .tex files written, as [invoice_number, name]
    emails,          \* messages handed to SMTP, in order
    error,           \* uncaught exception that ended the process, or "none"
    counter_before,  \* history: counter cell when the current pipeline was called
    counter0,        \* history: counter cell at process start
    completed,       \* history: number of pipelines that ran to line 109
    program,         \* which script the process runs: "invoice" or "summary"
    payments,        \* sheet: PAYMENT_RANGE rows [name, date, amount]
    client_sessions, \* create_and_send_summary: local
    client_payments, \* create_and_send_summary: local
    pdfs,            \* .pdf files produced by pdflatex, as [invoice_number, name]
    sent_before,     \* messages sent by an earlier process that crashed
    clients0         \* history: client table at process start

vars == <<sessions, clientRange, cutoff, counterCell, argv, names, idx, pc,
          name, invoice_number, all_clients, current_sessions, client_data,
          doc, files, emails, error, counter_before, counter0, completed,
          program, payments, client_sessions, client_payments, pdfs, sent_before,
          clients0>>

sheetVars == <<sessions, clientRange, cutoff, counterCell>>
localVars == <<name, invoice_number, all_clients, current_sessions, client_data, doc>>
summaryVars == <<program, payments, client_sessions, client_payments>>

-----------------------------------------------------------------------------
(* Bounds of the input space *)

MaxDate == 2
MaxSessions == 2
MaxArgs == 2

(* datetime(1899, 12, 30) as a day ordinal *)
Epoch == 693594

(* str.zfill width used for the invoice number *)
PadWidth == 4

-----------------------------------------------------------------------------
(* Helpers *)

Num(n) == [isnum |-> TRUE, v |-> n]
BadCell == [isnum |-> FALSE, v |-> 0]

SeqsUpTo(S, n) == UNION {[1..k -> S] : k \in 0..n}

RECURSIVE SumSeq(_)
SumSeq(s) == IF s = <<>> THEN 0 ELSE Head(s) + SumSeq(Tail(s))

(* list(names) of a set: its elements once each, in some order *)
ListsOf(S) ==
    {f \in [1..Cardinality(S) -> S] : \A i, j \in 1..Cardinality(S) : i # j => f[i] # f[j]}

(* parse_date: epoch plus the serial number of days *)
parse_date(serial_number) == Epoch + serial_number

(* parse_session: [name, parse_date(date), float(hours), float(fee)] *)
parse_session(row) ==
    [name |-> row.name, date |-> parse_date(row.date), hours |-> row.hours, fee |-> row.fee]

(* parse_client succeeds iff every float()/int() conversion does *)
ClientRowOk(row) == row.tab.isnum

parse_client(row) == [name |-> row.name, tab |-> row.tab.v, payer |-> row.payer]

(* str.zfill(width): left-pad with "0" up to width, never truncate *)
zfill(s, width) ==
    IF Len(s) >= width THEN s ELSE [i \in 1..(width - Len(s)) |-> 0] \o s

(* int(s) for a string of decimal digits *)
RECURSIVE int(_)
int(s) == IF s = <<>> THEN 0 ELSE 10 * int(SubSeq(s, 1, Len(s) - 1)) + s[Len(s)]

(* str(n) for n >= 0: decimal digits, no leading zeros *)
RECURSIVE str(_)
str(n) == IF n < 10 THEN <<n>> ELSE str(n \div 10) \o <<n % 10>>

(* payer[-1] == '!' *)
Marked(payer) == payer[Len(payer)] = "!"

(* payer[:-1] *)
StripLast(payer) == SubSeq(payer, 1, Len(payer) - 1)

-----------------------------------------------------------------------------
(* Selection and billing computation *)

(* line 62: [parse_session(row) for row in all_sessions if row[0] == name] *)
ClientSessions(n, all_sessions) ==
    LET mine == SelectSeq(all_sessions, LAMBDA row : row.name = n)
    IN  [i \in 1..Len(mine) |-> parse_session(mine[i])]

(* variant of InWindow with the end date inclusive *)
InWindowLeqEnd(d, cutoff_dates) == cutoff_dates[1] <= d /\ d <= cutoff_dates[2]

(* line 63: cutoff_dates[0] <= s[1] < cutoff_dates[1] *)
InWindow(d, cutoff_dates) == cutoff_dates[1] <= d /\ d < cutoff_dates[2]

(* variant of CurrentSessions that keeps every session of the client *)
CurrentSessionsAll(cs, cutoff_dates) == cs

(* line 63: the current-period sessions of the client *)
CurrentSessions(cs, cutoff_dates) ==
    SelectSeq(cs, LAMBDA s : InWindow(s.date, cutoff_dates))

(* line 57: [parse_date(row[0]) for row in CUTOFF_RANGE] *)
CutoffDates(c) == <<parse_date(c[1]), parse_date(c[2])>>

(* variant of Matching that ignores the name *)
MatchingAny(n, clients) == clients

(* line 64: rows of all_clients whose name matches, in order *)
Matching(n, clients) == SelectSeq(clients, LAMBDA row : row.name = n)

(* variant of Discover with the end date inclusive *)
DiscoverLeqEnd(all_sessions, cutoff_dates) ==
    {all_sessions[i].name : i \in {j \in 1..Len(all_sessions) :
        cutoff_dates[1] <= parse_date(all_sessions[j].date)
        /\ parse_date(all_sessions[j].date) <= cutoff_dates[2]}}

(* lines 275-278: names of the session rows dated inside the window *)
Discover(all_sessions, cutoff_dates) ==
    {all_sessions[i].name : i \in {j \in 1..Len(all_sessions) :
        cutoff_dates[1] <= parse_date(all_sessions[j].date)
        /\ parse_date(all_sessions[j].date) < cutoff_dates[2]}}

NoDoc ==
    [invoiceNumber |-> <<>>, clientName |-> "", sessionCount |-> 0, totalHours |-> 0,
     sessionTotal |-> 0, currentTab |-> 0, totalAmount |-> 0]

(* variant of get_invoice_template whose total leaves out the tab *)
TemplateNoTab(cd, inv, cur) ==
    LET session_total == SumSeq([i \in 1..Len(cur) |-> cur[i].fee])
    IN  [invoiceNumber |-> inv, clientName |-> cd.name, sessionCount |-> Len(cur),
         totalHours |-> SumSeq([i \in 1..Len(cur) |-> cur[i].hours]),
         sessionTotal |-> session_total, currentTab |-> cd.tab,
         totalAmount |-> session_total]

(* get_invoice_template: the computed fields of the document *)
get_invoice_template(cd, inv, cur) ==
    LET session_total == SumSeq([i \in 1..Len(cur) |-> cur[i].fee])
        current_tab == cd.tab
        total_due == session_total + current_tab
    IN  [invoiceNumber |-> inv, clientName |-> cd.name, sessionCount |-> Len(cur),
         totalHours |-> SumSeq([i \in 1..Len(cur) |-> cur[i].hours]),
         sessionTotal |-> session_total, currentTab |-> current_tab,
         totalAmount |-> total_due]

(* fill_content: which body the email gets *)
fill_content(payer) == IF Marked(payer) THEN "welcome" ELSE "standard"

(* variant of NextCounter without the increment *)
NextCounterSame(inv) == str(int(inv))

(* variant of NextCounter that pads the written value *)
NextCounterPadded(inv) == zfill(str(int(inv) + 1), PadWidth)

(* line 108: str(int(invoice_number) + 1) *)
NextCounter(inv) == str(int(inv) + 1)

(* lines 101-105: index of the first row whose payer equals the client's *)
FirstPayerRow(clients, payer) ==
    CHOOSE i \in 1..Len(clients) :
        /\ clients[i].payer = payer
        /\ \A j \in 1..(i - 1) : clients[j].payer # payer

(* summary.py parse_payment: [name, parse_date(date), float(amount)] *)
parse_payment(row) == [name |-> row.name, date |-> parse_date(row.date), amount |-> row.amount]

(* variant of ClientPayments that keeps the payments of every client *)
ClientPaymentsAll(n, all_payments) ==
    [i \in 1..Len(all_payments) |-> parse_payment(all_payments[i])]

(* summary.py line 69: [parse_payment(row) for row in all_payments if row[0] == name] *)
ClientPayments(n, all_payments) ==
    LET mine == SelectSeq(all_payments, LAMBDA row : row.name = n)
    IN  [i \in 1..Len(mine) |-> parse_payment(mine[i])]

(* get_summary_template: the computed fields of the summary document; the  *)
(* template has no tab and no amount-due field                             *)
get_summary_template(cd, cs, cp) ==
    [clientName |-> cd.name, sessionCount |-> Len(cs),
     totalHours |-> SumSeq([i \in 1..Len(cs) |-> cs[i].hours]),
     sessionTotal |-> SumSeq([i \in 1..Len(cs) |-> cs[i].fee]),
     paymentCount |-> Len(cp),
     paymentTotal |-> SumSeq([i \in 1..Len(cp) |-> cp[i].amount])]

-----------------------------------------------------------------------------
(* Inputs *)

ClientNames == {"A", "B"}
ArgNames == {"A", "B", "C"}
PayerP == <<"p">>
PayerPMarked == <<"p", "!">>
PayerQMarked == <<"q", "!">>

SessionRow(n, d) == [name |-> n, date |-> d, hours |-> 2, fee |-> 3 + d]
SessionRows == {SessionRow(n, d) : n \in ClientNames, d \in 0..MaxDate}

ClientTable(pa, ta, pb, tb) ==
    << [name |-> "A", tab |-> ta, payer |-> pa], [name |-> "B", tab |-> tb, payer |-> pb] >>

NoClient == [name |-> "", tab |-> 0, payer |-> <<>>]

InitProcess ==
    /\ names = <<>>
    /\ idx = 0
    /\ pc = "main"
    /\ name = ""
    /\ invoice_number = <<>>
    /\ all_clients = <<>>
    /\ current_sessions = <<>>
    /\ client_data = NoClient
    /\ doc = NoDoc
    /\ files = {}
    /\ emails = <<>>
    /\ error = "none"
    /\ counter_before = counterCell
    /\ counter0 = counterCell
    /\ completed = 0
    /\ client_sessions = <<>>
    /\ client_payments = <<>>
    /\ pdfs = {}
    /\ sent_before = <<>>
    /\ clients0 = clientRange

(* sheets that vary the client table, the counter and the command line *)
InitClients ==
    /\ sessions \in {<<>>, <<SessionRow("A", 1)>>, <<SessionRow("B", 1), SessionRow("A", 1)>>,
                     <<[name |-> "C", date |-> 1, hours |-> 2, fee |-> 3]>>}
    /\ cutoff = <<1, 2>>
    /\ \E pa, pb \in {PayerP, PayerPMarked, PayerQMarked} :
       \E ta \in {Num(0 - 1), Num(0), Num(5)} :
       \E tb \in {Num(2), BadCell} :
          clientRange = ClientTable(pa, ta, pb, tb)
    /\ counterCell \in {<<0, 0, 0, 7>>, <<7>>, <<9, 9, 9, 9>>}
    /\ argv \in SeqsUpTo(ArgNames, MaxArgs)

(* sheets that vary the session table and the cutoff window *)
InitSessions ==
    /\ sessions \in SeqsUpTo(SessionRows, MaxSessions)
    /\ cutoff \in {<<s, e>> : s \in 0..MaxDate, e \in 0..MaxDate}
    /\ clientRange = ClientTable(PayerPMarked, Num(0 - 1), PayerP, Num(2))
    /\ counterCell = <<0, 0, 0, 7>>
    /\ argv \in {<<>>, <<"A">>}

(* invoice.py never reads PAYMENT_RANGE *)
InitInvoice ==
    /\ program = "invoice"
    /\ payments = <<>>
    /\ InitClients \/ InitSessions

PaymentRow(n, d, a) == [name |-> n, date |-> d, amount |-> a]

(* summary.py reads the session, client and payment ranges; the cutoff     *)
(* range and the counter cell are in the sheet but never read              *)
InitSummary ==
    /\ program = "summary"
    /\ sessions \in SeqsUpTo(SessionRows, MaxSessions)
    /\ cutoff \in {<<1, 2>>, <<0, 0>>}
    /\ payments \in {<<>>, <<PaymentRow("A", 0, 4)>>,
                     <<PaymentRow("B", 1, 6), PaymentRow("A", 2, 4), PaymentRow("A", 0, 1)>>}
    /\ \E tb \in {Num(2), BadCell} :
          clientRange = ClientTable(PayerPMarked, Num(0 - 1), PayerP, tb)
    /\ counterCell = <<0, 0, 0, 7>>
    /\ argv \in {<<>>, <<"A">>, <<"A", "C">>, <<"C", "A">>}

Init == InitInvoice /\ InitProcess

SummaryInit == InitSummary /\ InitProcess

-----------------------------------------------------------------------------
(* The process *)

Raise(e) ==
    /\ error' = e
    /\ pc' = "halted"

(* lines 269-279: the names to process *)
Main ==
    /\ pc = "main"
    /\ program = "invoice"
    /\ IF Len(argv) > 0
       THEN names' = argv
       ELSE names' \in ListsOf(Discover(sessions, CutoffDates(cutoff)))
    /\ pc' = "loop"
    /\ UNCHANGED <<sheetVars, argv, summaryVars, idx, localVars, files, pdfs, emails,
                   sent_before, error, counter_before, counter0, clients0, completed>>

(* lines 281-282, 51: next iteration of the for loop calls the pipeline *)
NextName ==
    /\ pc = "loop"
    /\ idx < Len(names)
    /\ idx' = idx + 1
    /\ name' = names[idx + 1]
    /\ counter_before' = counterCell
    /\ pc' = "pull"
    /\ UNCHANGED <<sheetVars, argv, summaryVars, names, invoice_number, all_clients,
                   current_sessions, client_data, doc, files, pdfs, emails, sent_before,
                   error, counter0, clients0, completed>>

(* lines 284-286: the loop is exhausted; remove .aux and .log files *)
Cleanup ==
    /\ pc = "loop"
    /\ idx = Len(names)
    /\ pc' = "done"
    /\ UNCHANGED <<sheetVars, argv, summaryVars, names, idx, localVars, files, pdfs, emails,
                   sent_before, error, counter_before, counter0, clients0, completed>>


(* variant of Pull that uses the counter value read when the batch began *)
PullCounterOnce ==
    /\ pc = "pull"
    /\ \/ /\ Raise("APIError")
          /\ UNCHANGED <<invoice_number, all_clients>>
       \/ /\ \E i \in 1..Len(clientRange) : ~ClientRowOk(clientRange[i])
          /\ Raise("ValueError")
          /\ UNCHANGED <<invoice_number, all_clients>>
       \/ /\ \A i \in 1..Len(clientRange) : ClientRowOk(clientRange[i])
          /\ all_clients' = [i \in 1..Len(clientRange) |-> parse_client(clientRange[i])]
          /\ invoice_number' = zfill(counter0, PadWidth)
          /\ pc' = "select"
          /\ UNCHANGED error
    /\ UNCHANGED <<sheetVars, argv, summaryVars, names, idx, name, current_sessions,
                   client_data, doc, files, pdfs, emails, sent_before,
                   counter_before, counter0, clients0, completed>>

(* lines 55-58: read the sheet; a request may fail, a row may not parse *)
Pull ==
    /\ pc = "pull"
    /\ \/ /\ Raise("APIError")
          /\ UNCHANGED <<invoice_number, all_clients>>
       \/ /\ \E i \in 1..Len(clientRange) : ~ClientRowOk(clientRange[i])
          /\ Raise("ValueError")
          /\ UNCHANGED <<invoice_number, all_clients>>
       \/ /\ \A i \in 1..Len(clientRange) : ClientRowOk(clientRange[i])
          /\ all_clients' = [i \in 1..Len(clientRange) |-> parse_client(clientRange[i])]
          /\ invoice_number' = zfill(counterCell, PadWidth)
          /\ pc' = "select"
          /\ UNCHANGED error
    /\ UNCHANGED <<sheetVars, argv, summaryVars, names, idx, name, current_sessions,
                   client_data, doc, files, pdfs, emails, sent_before,
                   counter_before, counter0, clients0, completed>>

(* lines 62-64: the client's current sessions and its client row *)
Select ==
    /\ pc = "select"
    /\ current_sessions' = CurrentSessions(ClientSessions(name, sessions), CutoffDates(cutoff))
    /\ IF Matching(name, all_clients) = <<>>
       THEN /\ Raise("StopIteration")
            /\ UNCHANGED client_data
       ELSE /\ client_data' = Head(Matching(name, all_clients))
            /\ pc' = "tex"
            /\ UNCHANGED error
    /\ UNCHANGED <<sheetVars, argv, summaryVars, names, idx, name, invoice_number,
                   all_clients, doc, files, pdfs, emails, sent_before,
                   counter_before, counter0, clients0, completed>>

(* variant of WriteTex that advances the counter when the number is used *)
WriteTexAdvancesCounter ==
    /\ pc = "tex"
    /\ doc' = get_invoice_template(client_data, invoice_number, current_sessions)
    /\ files' = files \cup {[invoice_number |-> invoice_number, name |-> name]}
    /\ counterCell' = NextCounter(invoice_number)
    /\ pc' = "compile"
    /\ UNCHANGED <<sessions, clientRange, cutoff, argv, summaryVars, names, idx, name,
                   invoice_number, all_clients, current_sessions, client_data, pdfs, emails,
                   sent_before, error, counter_before, counter0, clients0, completed>>

(* lines 67-78: render the template and write the .tex file *)
WriteTex ==
    /\ pc = "tex"
    /\ doc' = get_invoice_template(client_data, invoice_number, current_sessions)
    /\ files' = files \cup {[invoice_number |-> invoice_number, name |-> name]}
    /\ pc' = "compile"
    /\ UNCHANGED <<sheetVars, argv, summaryVars, names, idx, name, invoice_number,
                   all_clients, current_sessions, client_data, pdfs, emails, sent_before,
                   error, counter_before, counter0, clients0, completed>>


(* variant of Compile that ignores the exit status of pdflatex *)
CompileUnchecked ==
    /\ pc = "compile"
    /\ \/ UNCHANGED pdfs
       \/ pdfs' = pdfs \cup {[invoice_number |-> invoice_number, name |-> name]}
    /\ pc' = "send"
    /\ UNCHANGED error
    /\ UNCHANGED <<sheetVars, argv, summaryVars, names, idx, localVars, files, emails,
                   sent_before, counter_before, counter0, clients0, completed>>

(* lines 81-87: pdflatex with check=True writes the .pdf next to the .tex *)
Compile ==
    /\ pc = "compile"
    /\ \/ /\ Raise("CalledProcessError")
          /\ UNCHANGED pdfs
       \/ /\ pdfs' = pdfs \cup {[invoice_number |-> invoice_number, name |-> name]}
          /\ pc' = "send"
          /\ UNCHANGED error
    /\ UNCHANGED <<sheetVars, argv, summaryVars, names, idx, localVars, files, emails,
                   sent_before, counter_before, counter0, clients0, completed>>

(* variant of Send with the counter write of line 108 moved before the send *)
SendAfterCounter ==
    /\ pc = "send"
    /\ counterCell' = NextCounter(invoice_number)
    /\ \/ /\ Raise("SMTPException")
          /\ UNCHANGED emails
       \/ /\ emails' = Append(emails, [name |-> name, payer |-> client_data.payer,
                                       variant |-> fill_content(client_data.payer),
                                       invoice_number |-> invoice_number, doc |-> doc])
          /\ pc' = "clear"
          /\ UNCHANGED error
    /\ UNCHANGED <<sessions, clientRange, cutoff, argv, summaryVars, names, idx, localVars,
                   files, pdfs, sent_before, counter_before, counter0, clients0, completed>>

(* lines 90-91, 113-156: build the message and send it *)
Send ==
    /\ pc = "send"
    /\ \/ /\ Raise("SMTPException")
          /\ UNCHANGED emails
       \/ /\ emails' = Append(emails, [name |-> name, payer |-> client_data.payer,
                                       variant |-> fill_content(client_data.payer),
                                       invoice_number |-> invoice_number, doc |-> doc])
          /\ pc' = "clear"
          /\ UNCHANGED error
    /\ UNCHANGED <<sheetVars, argv, summaryVars, names, idx, localVars, files, pdfs,
                   sent_before, counter_before, counter0, clients0, completed>>

(* variant of ClearPayer without the guard of line 99 *)
ClearPayerAlways ==
    /\ pc = "clear"
    /\ LET i == FirstPayerRow(all_clients, client_data.payer)
       IN  clientRange' = [clientRange EXCEPT ![i].payer = StripLast(client_data.payer)]
    /\ pc' = "counter"
    /\ UNCHANGED <<sessions, cutoff, counterCell, argv, summaryVars, names, idx, localVars,
                   files, pdfs, emails, sent_before, error, counter_before, counter0,
                   clients0, completed>>

(* lines 98-105: remove '!' from the payer name in the sheet *)
ClearPayer ==
    /\ pc = "clear"
    /\ IF Marked(client_data.payer)
       THEN \/ /\ Raise("APIError")
               /\ UNCHANGED clientRange
            \/ /\ LET i == FirstPayerRow(all_clients, client_data.payer)
                  IN  clientRange' =
                          [clientRange EXCEPT ![i].payer = StripLast(client_data.payer)]
               /\ pc' = "counter"
               /\ UNCHANGED error
       ELSE /\ pc' = "counter"
            /\ UNCHANGED <<clientRange, error>>
    /\ UNCHANGED <<sessions, cutoff, counterCell, argv, summaryVars, names, idx, localVars,
                   files, pdfs, emails, sent_before, counter_before, counter0, clients0,
                   completed>>

(* line 108: write the next invoice number to the counter cell *)
WriteCounter ==
    /\ pc = "counter"
    /\ \/ /\ Raise("APIError")
          /\ UNCHANGED counterCell
       \/ /\ counterCell' = NextCounter(invoice_number)
          /\ pc' = "complete"
          /\ UNCHANGED error
    /\ UNCHANGED <<sessions, clientRange, cutoff, argv, summaryVars, names, idx, localVars,
                   files, pdfs, emails, sent_before, counter_before, counter0, clients0,
                   completed>>

(* line 109: "Invoice Complete!", return to the loop *)
Complete ==
    /\ pc = "complete"
    /\ completed' = completed + 1
    /\ pc' = "loop"
    /\ UNCHANGED <<sheetVars, argv, summaryVars, names, idx, localVars, files, pdfs, emails,
                   sent_before, error, counter_before, counter0, clients0>>

(* the operator runs invoice.py again, with the same command line, after a  *)
(* process that ended on an exception raised after its last email was sent *)
(* and before the counter was written; files and sent mail stay            *)
Restart ==
    /\ pc = "halted"
    /\ program = "invoice"
    /\ idx >= 1
    /\ Len(emails) = idx
    /\ sent_before = <<>>
    /\ sent_before' = emails
    /\ emails' = <<>>
    /\ names' = <<>>
    /\ idx' = 0
    /\ pc' = "main"
    /\ error' = "none"
    /\ name' = ""
    /\ invoice_number' = <<>>
    /\ all_clients' = <<>>
    /\ current_sessions' = <<>>
    /\ client_data' = NoClient
    /\ doc' = NoDoc
    /\ counter_before' = counterCell
    /\ counter0' = counterCell
    /\ clients0' = clientRange
    /\ completed' = 0
    /\ UNCHANGED <<sheetVars, argv, summaryVars, files, pdfs>>

-----------------------------------------------------------------------------
(* The process running summary.py *)

(* summary.py lines 245-248: the names to process *)
SummaryMain ==
    /\ pc = "main"
    /\ program = "summary"
    /\ names' = IF Len(argv) > 0 THEN argv
                ELSE [i \in 1..Len(clientRange) |-> clientRange[i].name]
    /\ pc' = "s_loop"
    /\ UNCHANGED <<sheetVars, argv, summaryVars, idx, localVars, files, pdfs, emails,
                   sent_before, error, counter_before, counter0, clients0, completed>>

(* summary.py lines 250-251, 57: the loop calls create_and_send_summary *)
SummaryNextName ==
    /\ pc = "s_loop"
    /\ idx < Len(names)
    /\ idx' = idx + 1
    /\ name' = names[idx + 1]
    /\ counter_before' = counterCell
    /\ pc' = "s_pull"
    /\ UNCHANGED <<sheetVars, argv, summaryVars, names, invoice_number, all_clients,
                   current_sessions, client_data, doc, files, pdfs, emails, sent_before,
                   error, counter0, clients0, completed>>

(* summary.py lines 253-255: the loop is exhausted *)
SummaryCleanup ==
    /\ pc = "s_loop"
    /\ idx = Len(names)
    /\ pc' = "done"
    /\ UNCHANGED <<sheetVars, argv, summaryVars, names, idx, localVars, files, pdfs, emails,
                   sent_before, error, counter_before, counter0, clients0, completed>>

(* summary.py lines 61-64: read the sheet *)
SummaryPull ==
    /\ pc = "s_pull"
    /\ \/ /\ Raise("APIError")
          /\ UNCHANGED all_clients
       \/ /\ \E i \in 1..Len(clientRange) : ~ClientRowOk(clientRange[i])
          /\ Raise("ValueError")
          /\ UNCHANGED all_clients
       \/ /\ \A i \in 1..Len(clientRange) : ClientRowOk(clientRange[i])
          /\ all_clients' = [i \in 1..Len(clientRange) |-> parse_client(clientRange[i])]
          /\ pc' = "s_select"
          /\ UNCHANGED error
    /\ UNCHANGED <<sheetVars, argv, summaryVars, names, idx, name, invoice_number,
                   current_sessions, client_data, doc, files, pdfs, emails, sent_before,
                   counter_before, counter0, clients0, completed>>

(* summary.py lines 68-70: the client's sessions, payments and client row *)
SummarySelect ==
    /\ pc = "s_select"
    /\ client_sessions' = ClientSessions(name, sessions)
    /\ client_payments' = ClientPayments(name, payments)
    /\ IF Matching(name, all_clients) = <<>>
       THEN /\ Raise("StopIteration")
            /\ UNCHANGED client_data
       ELSE /\ client_data' = Head(Matching(name, all_clients))
            /\ pc' = "s_tex"
            /\ UNCHANGED error
    /\ UNCHANGED <<sheetVars, argv, program, payments, names, idx, name, invoice_number,
                   all_clients, current_sessions, doc, files, pdfs, emails, sent_before,
                   counter_before, counter0, clients0, completed>>

(* summary.py lines 73-83: render the template and write the .tex file *)
SummaryWriteTex ==
    /\ pc = "s_tex"
    /\ doc' = get_summary_template(client_data, client_sessions, client_payments)
    /\ files' = files \cup {[tag |-> "SUM", name |-> name]}
    /\ pc' = "s_compile"
    /\ UNCHANGED <<sheetVars, argv, summaryVars, names, idx, name, invoice_number,
                   all_clients, current_sessions, client_data, pdfs, emails, sent_before,
                   error, counter_before, counter0, clients0, completed>>

(* summary.py lines 86-92: pdflatex with check=True *)
SummaryCompile ==
    /\ pc = "s_compile"
    /\ \/ /\ Raise("CalledProcessError")
          /\ UNCHANGED pdfs
       \/ /\ pdfs' = pdfs \cup {[tag |-> "SUM", name |-> name]}
          /\ pc' = "s_send"
          /\ UNCHANGED error
    /\ UNCHANGED <<sheetVars, argv, summaryVars, names, idx, localVars, files, emails,
                   sent_before, counter_before, counter0, clients0, completed>>

(* summary.py lines 95-96, 102-124: build the message and send it *)
SummarySend ==
    /\ pc = "s_send"
    /\ \/ /\ Raise("SMTPException")
          /\ UNCHANGED emails
       \/ /\ emails' = Append(emails, [name |-> name, payer |-> client_data.payer,
                                       variant |-> "summary", doc |-> doc])
          /\ pc' = "s_complete"
          /\ UNCHANGED error
    /\ UNCHANGED <<sheetVars, argv, summaryVars, names, idx, localVars, files, pdfs,
                   sent_before, counter_before, counter0, clients0, completed>>


(* variant of SummaryComplete that advances the counter cell *)
SummaryCompleteWritesCounter ==
    /\ pc = "s_complete"
    /\ completed' = completed + 1
    /\ counterCell' = NextCounter(counterCell)
    /\ pc' = "s_loop"
    /\ UNCHANGED <<sessions, clientRange, cutoff, argv, summaryVars, names, idx, localVars,
                   files, pdfs, emails, sent_before, error, counter_before, counter0,
                   clients0>>

(* summary.py lines 98-99: "Summary Complete!", return to the loop *)
SummaryComplete ==
    /\ pc = "s_complete"
    /\ completed' = completed + 1
    /\ pc' = "s_loop"
    /\ UNCHANGED <<sheetVars, argv, summaryVars, names, idx, localVars, files, pdfs, emails,
                   sent_before, error, counter_before, counter0, clients0>>

Next ==
    \/ Main
    \/ NextName
    \/ Cleanup
    \/ Pull
    \/ Select
    \/ WriteTex
    \/ Compile
    \/ Send
    \/ ClearPayer
    \/ WriteCounter
    \/ Complete
    \/ Restart

SummaryNext ==
    \/ SummaryMain
    \/ SummaryNextName
    \/ SummaryCleanup
    \/ SummaryPull
    \/ SummarySelect
    \/ SummaryWriteTex
    \/ SummaryCompile
    \/ SummarySend
    \/ SummaryComplete

(* a process running invoice.py *)
Spec == Init /\ [][Next]_vars

(* a process running summary.py *)
SummarySpec == SummaryInit /\ [][SummaryNext]_vars

(* a process running either script *)
AnySpec == (Init \/ SummaryInit) /\ [][Next \/ SummaryNext]_vars

-----------------------------------------------------------------------------
(* Properties *)

(* the pipeline of the current name has passed lines 62-64 with a client row *)
Selected == pc \in {"tex", "compile", "send", "clear", "counter", "complete"}

(* the document of the current name has been rendered *)
Rendered == pc \in {"compile", "send", "clear", "counter", "complete"}

(* the sheet row of client n (client names are unique in the table) *)
OwnRow(n) == CHOOSE i \in 1..Len(clientRange) : clientRange[i].name = n

(* indexes of the session rows of client n dated on serial day d *)
RowsOn(n, d) == {i \in 1..Len(sessions) : sessions[i].name = n /\ sessions[i].date = d}

(* no session row of client n is dated inside the cutoff window *)
NoSessionInWindow(n) ==
    \A i \in 1..Len(sessions) :
        ~(sessions[i].name = n /\ cutoff[1] <= sessions[i].date /\ sessions[i].date < cutoff[2])

(* C1: the current-period list holds a session of the invoiced client iff  *)
(* start <= date < end: for every day d, the list holds as many sessions   *)
(* dated d as the client has rows on d when d is in [start, end), and none *)
(* otherwise; start itself is in, end itself is out.                       *)
Thm_C1_InWindow ==
    Selected =>
        /\ \A d \in 0..MaxDate :
              Cardinality({i \in 1..Len(current_sessions) :
                              current_sessions[i].date = Epoch + d})
                = IF cutoff[1] <= d /\ d < cutoff[2]
                  THEN Cardinality(RowsOn(name, d)) ELSE 0
        /\ \A i \in 1..Len(current_sessions) :
              /\ current_sessions[i].name = name
              /\ current_sessions[i].date - Epoch \in 0..MaxDate

Wit_C1_Boundaries ==
    /\ Selected
    /\ cutoff[1] < cutoff[2]
    /\ RowsOn(name, cutoff[1]) # {}
    /\ RowsOn(name, cutoff[2]) # {}
    /\ Len(current_sessions) = 1
    /\ current_sessions[1].date = Epoch + cutoff[1]

(* C2: a pipeline that ran to its end left the counter at the value it had *)
(* when the pipeline was called plus one, and between pipelines the        *)
(* counter equals its initial value plus the number of completed ones.     *)
Thm_C2_CounterPlusOne ==
    /\ pc = "complete" => int(counterCell) = int(counter_before) + 1
    /\ pc \in {"loop", "done"} => int(counterCell) = int(counter0) + completed

Wit_C2_BatchOfTwo ==
    /\ pc = "done"
    /\ completed = 2
    /\ int(counterCell) = int(counter0) + 2

(* C3: when the process ended on a failure of a pipeline that had not sent *)
(* its email, the counter cell is what it was when that pipeline started.  *)
Thm_C3_FailureKeepsCounter ==
    (pc = "halted" /\ Len(emails) < idx) => counterCell = counter_before

Wit_C3_SendFailureAfterSuccess ==
    /\ pc = "halted"
    /\ Len(emails) < idx
    /\ error = "SMTPException"
    /\ completed = 1
    /\ counterCell # counter0

(* C4: a failing client does not abort the batch: the process never ends   *)
(* on an error while names after the failing one are still unattempted.    *)
CE_C4_BatchContinues ==
    pc = "halted" => idx = Len(names)

CE_C6_MarkerConsumed ==
    pc = "complete" =>
        IF Marked(client_data.payer)
        THEN /\ emails[Len(emails)].variant = "welcome"
             /\ clientRange[OwnRow(name)].payer = StripLast(client_data.payer)
        ELSE /\ emails[Len(emails)].variant = "standard"
             /\ clientRange[OwnRow(name)].payer = client_data.payer

(* C7: when the pipeline of a client clears the marker, the cell rewritten *)
(* is the one in the client's own row and every other row keeps its payer. *)
CE_C7_OwnRowOnly ==
    (pc \in {"counter", "complete"} /\ Marked(client_data.payer)) =>
        /\ clientRange[OwnRow(name)].payer = StripLast(client_data.payer)
        /\ \A i \in 1..Len(clientRange) :
              i # OwnRow(name) => clientRange[i].payer = all_clients[i].payer

(* C8: the clear step of a pipeline whose client has no trailing '!' in    *)
(* its payer name writes no payer cell and raises nothing: it goes on to   *)
(* the counter write with the client table unchanged.                      *)
Thm_C8_ClearIdempotent ==
    [][(pc = "clear" /\ ~Marked(client_data.payer))
          => (pc' = "counter" /\ error' = "none" /\ clientRange' = clientRange)]_vars

Wit_C8_ClearedTwice ==
    /\ pc = "counter"
    /\ idx = 2
    /\ names[1] = names[2]
    /\ emails[1].variant = "welcome"
    /\ ~Marked(client_data.payer)
    /\ clientRange[OwnRow(name)].payer = StripLast(emails[1].payer)

(* C9: a client with no session in the window is rendered and sent like    *)
(* any other: the document has session_count, total_hours and              *)
(* session_total 0 and total_due equal to the client's running tab, and a  *)
(* completed pipeline has written that document and sent it.               *)
Thm_C9_ZeroSessions ==
    /\ (Rendered /\ NoSessionInWindow(name)) =>
          /\ doc.sessionCount = 0
          /\ doc.totalHours = 0
          /\ doc.sessionTotal = 0
          /\ doc.totalAmount = clientRange[OwnRow(name)].tab.v
    /\ (pc = "complete" /\ NoSessionInWindow(name)) =>
          /\ Len(emails) = idx
          /\ emails[idx].name = name
          /\ emails[idx].doc = doc
          /\ \E f \in files : f.name = name /\ f.invoice_number = doc.invoiceNumber

Wit_C9_EmptyInvoiceSent ==
    /\ pc = "complete"
    /\ NoSessionInWindow(name)
    /\ \E i \in 1..Len(sessions) : sessions[i].name = name
    /\ doc.totalAmount # 0
    /\ emails[Len(emails)].doc.sessionCount = 0

(* C10: without command-line names, the list the driver iterates holds     *)
(* exactly the names that have a session row with start <= date < end,     *)
(* each once.                                                              *)
Thm_C10_Discovery ==
    (pc # "main" /\ argv = <<>>) =>
        /\ {names[i] : i \in 1..Len(names)}
             = {sessions[i].name : i \in {j \in 1..Len(sessions) :
                   cutoff[1] <= sessions[j].date /\ sessions[j].date < cutoff[2]}}
        /\ \A i, j \in 1..Len(names) : i # j => names[i] # names[j]
        /\ \A i \in 1..Len(names) : ~NoSessionInWindow(names[i])

Wit_C10_OnceAndExcluded ==
    /\ pc = "loop"
    /\ argv = <<>>
    /\ Len(names) = 1
    /\ Len(sessions) = 2
    /\ \/ sessions[1] = sessions[2]
       \/ (sessions[1].name # sessions[2].name /\ sessions[2].date = cutoff[2])

(* indexes of the session rows of client n dated inside the cutoff window *)
RowsIn(n) ==
    {i \in 1..Len(sessions) :
        sessions[i].name = n /\ cutoff[1] <= sessions[i].date /\ sessions[i].date < cutoff[2]}

(* sum of the fee cells of the session rows with index in I *)
RECURSIVE FeeSum(_)
FeeSum(I) ==
    IF I = {} THEN 0
    ELSE LET i == CHOOSE x \in I : TRUE IN sessions[i].fee + FeeSum(I \ {i})

(* sum of the hours cells of the session rows with index in I *)
RECURSIVE HourSum(_)
HourSum(I) ==
    IF I = {} THEN 0
    ELSE LET i == CHOOSE x \in I : TRUE IN sessions[i].hours + HourSum(I \ {i})

(* C11: on every rendered invoice, total due is the sum of the fees of the *)
(* client's session rows inside the window plus the client's running tab,  *)
(* whatever the tab's sign, and session count and total hours are the      *)
(* number and the summed hours of exactly those rows.                      *)
Thm_C11_Totals ==
    Rendered =>
        /\ doc.sessionCount = Cardinality(RowsIn(name))
        /\ doc.totalHours = HourSum(RowsIn(name))
        /\ doc.sessionTotal = FeeSum(RowsIn(name))
        /\ doc.currentTab = clientRange[OwnRow(name)].tab.v
        /\ doc.totalAmount = FeeSum(RowsIn(name)) + clientRange[OwnRow(name)].tab.v

Wit_C11_TwoSessionsCredit ==
    /\ Rendered
    /\ Cardinality(RowsIn(name)) = 2
    /\ clientRange[OwnRow(name)].tab.v < 0
    /\ doc.totalAmount = doc.sessionTotal - 1
    /\ doc.sessionTotal > doc.totalHours

(* the client table has no row for name n *)
Missing(n) == \A i \in 1..Len(clientRange) : clientRange[i].name # n

(* the current pipeline ended the process at the client lookup *)
LookupFailed ==
    /\ pc = "halted"
    /\ idx >= 1
    /\ Missing(name)
    /\ error \notin {"APIError", "ValueError"}

(* nothing was written or sent for the current name, and the sheet is as   *)
(* the current pipeline read it                                            *)
NothingDoneForName ==
    /\ \A f \in files \cup pdfs : f.name # name
    /\ \A i \in 1..Len(emails) : emails[i].name # name
    /\ counterCell = counter_before
    /\ \A i \in 1..Len(clientRange) : clientRange[i].payer = all_clients[i].payer

CrashedAfterSend ==
    /\ pc = "halted"
    /\ program = "invoice"
    /\ idx >= 1
    /\ Len(emails) = idx

(* C13: when the process is interrupted after the send and before the      *)
(* counter write, the sent email stays sent and the stored counter still   *)
(* equals the invoice number on it; the first invoice of the next run      *)
(* therefore carries the same number.                                      *)
Thm_C13_NotTransactional ==
    /\ CrashedAfterSend =>
          /\ emails[idx].name = name
          /\ emails[idx].invoice_number = invoice_number
          /\ int(counterCell) = int(emails[idx].invoice_number)
    /\ sent_before # <<>> =>
          /\ int(counter0) = int(sent_before[Len(sent_before)].invoice_number)
          /\ Len(emails) >= 1 =>
                emails[1].invoice_number = sent_before[Len(sent_before)].invoice_number

Wit_C13_NumberReused ==
    /\ sent_before # <<>>
    /\ pc = "done"
    /\ Len(emails) >= 1
    /\ emails[1].invoice_number = sent_before[Len(sent_before)].invoice_number
    /\ emails[1].name # sent_before[Len(sent_before)].name

(* the summary document of the current name has been rendered *)
SummaryRendered == program = "summary" /\ pc \in {"s_compile", "s_send", "s_complete"}

(* indexes of all the session rows of client n, whatever their date *)
AllRowsOf(n) == {i \in 1..Len(sessions) : sessions[i].name = n}

(* indexes of the payment rows of client n *)
PaymentsOf(n) == {i \in 1..Len(payments) : payments[i].name = n}

(* sum of the amount cells of the payment rows with index in I *)
RECURSIVE PaySum(_)
PaySum(I) ==
    IF I = {} THEN 0
    ELSE LET i == CHOOSE x \in I : TRUE IN payments[i].amount + PaySum(I \ {i})

(* C14: on every rendered summary, session count, total hours and session  *)
(* total cover all the session rows of the client whatever the cutoff      *)
(* window, payment count and payment total cover exactly the payment rows  *)
(* carrying the client's name, and the document has no tab and no          *)
(* amount-due field for the payments to enter.                             *)
Thm_C14_SummaryFigures ==
    SummaryRendered =>
        /\ doc.sessionCount = Cardinality(AllRowsOf(name))
        /\ doc.totalHours = HourSum(AllRowsOf(name))
        /\ doc.sessionTotal = FeeSum(AllRowsOf(name))
        /\ doc.paymentCount = Cardinality(PaymentsOf(name))
        /\ doc.paymentTotal = PaySum(PaymentsOf(name))
        /\ DOMAIN doc = {"clientName", "sessionCount", "totalHours", "sessionTotal",
                         "paymentCount", "paymentTotal"}

Wit_C14_OutsideWindowAndOtherPayer ==
    /\ SummaryRendered
    /\ Cardinality(AllRowsOf(name)) = 2
    /\ RowsIn(name) = {}
    /\ Len(payments) = 3
    /\ doc.paymentCount = 2
    /\ doc.paymentTotal = 5
    /\ doc.sessionTotal > 0

(* C15: in a run of the batch, as long as every pipeline so far succeeded, *)
(* the i-th invoice sent is the one of the i-th name processed and carries *)
(* the counter value found when the run began plus (i - 1), so the numbers *)
(* of one run are consecutive and pairwise distinct.                       *)
Thm_C15_ConsecutiveNumbers ==
    /\ \A i \in 1..Len(emails) :
          /\ emails[i].name = names[i]
          /\ emails[i].invoice_number = zfill(str(int(counter0) + (i - 1)), PadWidth)
          /\ emails[i].doc.invoiceNumber = emails[i].invoice_number
    /\ \A i, j \in 1..Len(emails) :
          i # j => emails[i].invoice_number # emails[j].invoice_number
    /\ pc = "done" => Len(emails) = Len(names)

Wit_C15_TwoInARow ==
    /\ pc = "done"
    /\ Len(names) = 2
    /\ Len(emails) = 2
    /\ int(emails[2].invoice_number) = int(counter0) + 1
    /\ emails[1].name # emails[2].name

(* the email of the current pipeline has been sent *)
CurrentSent ==
    /\ idx >= 1
    /\ Len(emails) = idx
    /\ emails[idx].name = name
    /\ emails[idx].invoice_number = invoice_number

(* no payer cell has been written since the current pipeline read the table *)
PayersAsRead ==
    /\ Len(all_clients) = Len(clientRange)
    /\ \A i \in 1..Len(clientRange) : clientRange[i].payer = all_clients[i].payer

(* the payer-clearing step of the current pipeline has taken effect *)
PayerCleared ==
    Marked(client_data.payer) =>
        clientRange[FirstPayerRow(all_clients, client_data.payer)].payer
            = StripLast(client_data.payer)

(* the current pipeline's own .tex and .pdf *)
OwnFile == [invoice_number |-> invoice_number, name |-> name]

(* C16: every step of the invoice pipeline happens after the steps before  *)
(* it: a pdf is produced only from a written document, an email is sent    *)
(* only when the pdf was compiled and while no sheet cell has been written *)
(* by the pipeline, a payer cell is written only after the send and before *)
(* the counter write, and the counter is written only after the send and   *)
(* the payer clearing.                                                     *)
Thm_C16_StepOrder ==
    [][ /\ pdfs' # pdfs =>
              /\ OwnFile \in files
              /\ pdfs' = pdfs \cup {OwnFile}
              /\ ~CurrentSent
        /\ Len(emails') > Len(emails) =>
              /\ OwnFile \in pdfs
              /\ OwnFile \in files
              /\ emails'[Len(emails')].doc = doc
              /\ counterCell = counter_before
              /\ PayersAsRead
              /\ UNCHANGED <<counterCell, clientRange>>
        /\ clientRange' # clientRange =>
              /\ CurrentSent
              /\ PayersAsRead
              /\ counterCell = counter_before
              /\ UNCHANGED <<counterCell, emails>>
        /\ counterCell' # counterCell =>
              /\ CurrentSent
              /\ PayerCleared
              /\ counterCell = counter_before
              /\ UNCHANGED <<clientRange, emails>>
      ]_vars

Wit_C16_AllFiveSteps ==
    /\ pc = "complete"
    /\ CurrentSent
    /\ OwnFile \in files
    /\ OwnFile \in pdfs
    /\ Marked(client_data.payer)
    /\ ~PayersAsRead
    /\ PayerCleared
    /\ counterCell # counter_before

====
